---- MODULE Spec2Model ----
(***************************************************************************)
(* Model of the Ansible modules vmware_clone_template.py (clone a VM from  *)
(* a template, wait for the clone task, wait for guest customization) and  *)
(* vmware_ovf_deploy.py (build an ovftool command line and run it).        *)
(*                                                                         *)
(* Four specifications share the variables below:                          *)
(*   Spec            the clone workflow, main() from the template lookup   *)
(*   SpecDeploy      the deploy workflow, main() of vmware_ovf_deploy.py   *)
(*   SpecGetObj      get_obj applied to bounded inventories                *)
(*   SpecCheckEvents check_events applied to bounded event batches         *)
(* module.exit_json and module.fail_json end the process (SystemExit, which *)
(* "except Exception" does not catch): each appends one payload to results *)
(* and moves pc to "done".                                                 *)
(***************************************************************************)
EXTENDS Integers, Sequences, FiniteSets, TLC

\* ------------------------------------------------------------------ bounds
\* Longest inventory view returned by CreateContainerView.
MaxInv == 3
\* Longest event batch returned by QueryEvents.
MaxBatch == 3
\* Most entries in the properties dict of the deploy workflow.
MaxProps == 2

\* ------------------------------------------------------------- value sets
\* Python's None, and an argument left blank: both are falsy.
None == "None"
Blank == ""
Names == {"a", "b", "c"}
NameArgs == Names \cup {None, Blank}
Truthy(x) == x \notin {None, Blank}

SeqUpTo(S, n) == UNION {[1..k -> S] : k \in 0..n}

\* An inventory object is its position in the view and its name; NoObj is None.
NoObj == [pos |-> 0, name |-> None]
Views == SeqUpTo(Names, MaxInv)

\* ---------------------------------------------------------------- get_obj
\* for c in container.view: the loop from candidate i on.
RECURSIVE get_obj_from(_, _, _)
get_obj_from(view, name, i) ==
    IF i > Len(view) THEN NoObj
    ELSE IF Truthy(name)
         THEN IF view[i] = name
              THEN [pos |-> i, name |-> view[i]]
              ELSE get_obj_from(view, name, i + 1)
         ELSE [pos |-> i, name |-> view[i]]

\* The loop without its "break" in the name branch: the last match wins.
RECURSIVE get_obj_last(_, _, _)
get_obj_last(view, name, i) ==
    IF i > Len(view) THEN NoObj
    ELSE LET rest == get_obj_last(view, name, i + 1)
         IN  IF Truthy(name)
             THEN IF rest # NoObj THEN rest
                  ELSE IF view[i] = name THEN [pos |-> i, name |-> view[i]]
                  ELSE NoObj
             ELSE [pos |-> i, name |-> view[i]]

get_obj_nobreak(view, name) == get_obj_last(view, name, 1)

get_obj(view, name) == get_obj_from(view, name, 1)

\* ----------------------------------------------------------- check_events
TerminalFailureKinds ==
    {"CustomizationFailed", "CustomizationLinuxIdentityFailed",
     "CustomizationNetworkSetupFailed", "CustomizationSysprepFailed",
     "CustomizationUnknownFailure"}
TerminalEventKinds == TerminalFailureKinds \cup {"CustomizationSucceeded"}
EventTypes == TerminalEventKinds \cup {"CustomizationStartedEvent"}
Texts == {"m1", "m2"}
Events == [type : EventTypes, fullFormattedMessage : Texts]
Batches == SeqUpTo(Events, MaxBatch)

\* What a call of check_events does: it returns current_status, or it ends
\* the process through exit_json / fail_json with msg = prefix % text.
Outcome(call, prefix, text) == [call |-> call, prefix |-> prefix, text |-> text]

\* The if/elif chain on one event, text being its fullFormattedMessage (the
\* current_status of the loop); "continue" when no branch matches.
EventBranch(event_type, text) ==
    IF event_type = "CustomizationFailed"
    THEN Outcome("fail_json", "Customization Failed - ", text)
    ELSE IF event_type = "CustomizationLinuxIdentityFailed"
    THEN Outcome("fail_json", "Customization Failed - Linux Identity Failed - ", text)
    ELSE IF event_type = "CustomizationNetworkSetupFailed"
    THEN Outcome("fail_json", "Customization Failed - Network Setup Failed - ", text)
    ELSE IF event_type = "CustomizationSysprepFailed"
    THEN Outcome("fail_json", "Customization Failed - Sysprep Failed - ", text)
    ELSE IF event_type = "CustomizationUnknownFailure"
    THEN Outcome("fail_json", "Customization Failed - Unknown Failure - ", text)
    ELSE IF event_type = "CustomizationSucceeded"
    THEN Outcome("exit_json", "Successfully Deployed and customized OS - ", text)
    ELSE Outcome("continue", "", text)

\* for event in events: the loop from event i on, current_status so far.
RECURSIVE check_events_from(_, _, _)
check_events_from(evs, i, status) ==
    IF i > Len(evs) THEN Outcome("return", "", status)
    ELSE LET b == EventBranch(evs[i].type, evs[i].fullFormattedMessage)
         IN  IF b.call = "continue"
             THEN check_events_from(evs, i + 1, evs[i].fullFormattedMessage)
             ELSE b

\* The loop if a terminal event did not end the process: the last one decides.
RECURSIVE check_events_last(_, _, _)
check_events_last(evs, i, status) ==
    IF i > Len(evs) THEN Outcome("return", "", status)
    ELSE LET b == EventBranch(evs[i].type, evs[i].fullFormattedMessage)
             rest == check_events_last(evs, i + 1, evs[i].fullFormattedMessage)
         IN  IF rest.call # "return" THEN rest
             ELSE IF b.call = "continue" THEN rest
             ELSE b

check_events_noexit(evs) == check_events_last(evs, 1, "")

check_events(evs) == check_events_from(evs, 1, "")

\* --------------------------------------------------------------- variables
VARIABLES
    pc,                     \* position in the running program
    results,                \* payloads handed to exit_json / fail_json, in order
    params,                 \* module.params
    \* clone workflow: locals of clone_vm and what it observes
    datacenter, destfolder, datastore, cluster, resource_pool,
    customization_template, \* the local: the name, then the looked-up spec
    clone_calls,            \* calls of template.Clone
    task_state,             \* task.info.state
    wait_time, current_status,
    observations,           \* calls of check_events made by the poll loop
    last_event_text,        \* text of the last event of the latest batch
    \* deploy workflow
    check_mode, command, run_calls, run_outcome, rc,
    \* get_obj on its own
    view, name, obj,
    \* check_events on its own
    events, outcome

cloneVars == <<datacenter, destfolder, datastore, cluster, resource_pool,
               customization_template, clone_calls, task_state, wait_time,
               current_status, observations, last_event_text>>
deployVars == <<check_mode, command, run_calls, run_outcome, rc>>
getObjVars == <<view, name, obj>>
eventVars == <<events, outcome>>
vars == <<pc, results, params, cloneVars, deployVars, getObjVars, eventVars>>

\* The parts of the state a specification does not use.
IdleClone ==
    /\ datacenter = NoObj /\ destfolder = NoObj /\ datastore = NoObj
    /\ cluster = NoObj /\ resource_pool = NoObj
    /\ customization_template = None
    /\ clone_calls = 0 /\ task_state = "none"
    /\ wait_time = 0 /\ current_status = "" /\ observations = 0
    /\ last_event_text = ""
IdleDeploy ==
    /\ check_mode = FALSE /\ command = <<>> /\ run_calls = 0
    /\ run_outcome = "not_run" /\ rc = 0
IdleGetObj == view = <<>> /\ name = None /\ obj = NoObj
IdleEvents == events = <<>> /\ outcome = Outcome("pending", "", "")

\* ------------------------------------------------------- result reporting
\* A payload: kind is the AnsibleModule method, keys the keyword arguments
\* given to it; msg and command are strings kept as sequences of fragments.
Payload(kind, keys, msg, cmd, out) ==
    [kind |-> kind, keys |-> keys, changed |-> "changed" \in keys,
     msg |-> msg, command |-> cmd, stdout |-> out]

\* exit_json / fail_json: report and end the process.
Report(p) == /\ results' = Append(results, p)
             /\ pc' = "done"

\* except Exception as e: module.fail_json(msg="Some Error %s" % (e))
Raise(e) == Report(Payload("fail_json", {"msg"}, <<"Some Error ", e>>, <<>>, ""))

\* =========================================================== clone workflow
MAX_WAIT_TIME == 3600
\* time.sleep(15); wait_time += 15
POLL_INTERVAL == 15

CloneArgs == {None, "a"}
CloneParams ==
    [template_name : {"a"},
     datacenter_name : CloneArgs, vm_folder : CloneArgs,
     datastore_name : CloneArgs, cluster_name : CloneArgs,
     resource_pool : CloneArgs,
     customization_template : {None, "tmpl"}]

\* What GetCustomizationSpec gives back: nothing, or a spec item whose
\* nicSettingMap is empty or has an entry.
NoSpec == None
SpecItems == {"spec_without_nic", "spec_with_nic"}

\* datacenter.vmFolder / cluster.resourcePool of a resolved object
ChildOf(o, attr) == [pos |-> o.pos, name |-> attr]

InitClone ==
    /\ pc = "main"
    /\ results = <<>>
    /\ params \in CloneParams
    /\ datacenter = NoObj /\ destfolder = NoObj /\ datastore = NoObj
    /\ cluster = NoObj /\ resource_pool = NoObj
    /\ customization_template = params.customization_template
    /\ clone_calls = 0 /\ task_state = "none"
    /\ wait_time = 0 /\ current_status = "" /\ observations = 0
    /\ last_event_text = ""
    /\ IdleDeploy /\ IdleGetObj /\ IdleEvents

unusedByClone == <<params, deployVars, getObjVars, eventVars>>

\* main: template = get_obj(...); if template: clone_vm(...) else fail_json
FindTemplate ==
    /\ pc = "main"
    /\ \E v \in Views :
         IF get_obj(v, params.template_name) # NoObj
         THEN pc' = "datacenter" /\ UNCHANGED results
         ELSE Report(Payload("fail_json", {"msg"},
                  <<"Template ", params.template_name, " not found">>, <<>>, ""))
    /\ UNCHANGED <<cloneVars, unusedByClone>>

\* datacenter = get_obj(content, [vim.Datacenter], datacenter_name)
ResolveDatacenter ==
    /\ pc = "datacenter"
    /\ \E v \in Views : datacenter' = get_obj(v, params.datacenter_name)
    /\ pc' = "destfolder"
    /\ UNCHANGED <<results, destfolder, datastore, cluster, resource_pool,
                   customization_template, clone_calls, task_state, wait_time,
                   current_status, observations, last_event_text, unusedByClone>>

\* if vm_folder: destfolder = get_obj(...) else: destfolder = datacenter.vmFolder
ResolveFolder ==
    /\ pc = "destfolder"
    /\ IF Truthy(params.vm_folder)
       THEN /\ \E v \in Views : destfolder' = get_obj(v, params.vm_folder)
            /\ pc' = "datastore" /\ UNCHANGED results
       ELSE IF datacenter = NoObj
            THEN Raise("AttributeError") /\ UNCHANGED destfolder
            ELSE /\ destfolder' = ChildOf(datacenter, "vmFolder")
                 /\ pc' = "datastore" /\ UNCHANGED results
    /\ UNCHANGED <<datacenter, datastore, cluster, resource_pool,
                   customization_template, clone_calls, task_state, wait_time,
                   current_status, observations, last_event_text, unusedByClone>>

\* if datastore_name: get_obj(...) else: get_obj(..., template.datastore[0].info.name)
ResolveDatastore ==
    /\ pc = "datastore"
    /\ IF Truthy(params.datastore_name)
       THEN /\ \E v \in Views : datastore' = get_obj(v, params.datastore_name)
            /\ pc' = "cluster" /\ UNCHANGED results
       ELSE \E tds \in SeqUpTo(Names, 1) :
              IF tds = <<>>
              THEN Raise("IndexError") /\ UNCHANGED datastore
              ELSE /\ \E v \in Views : datastore' = get_obj(v, tds[1])
                   /\ pc' = "cluster" /\ UNCHANGED results
    /\ UNCHANGED <<datacenter, destfolder, cluster, resource_pool,
                   customization_template, clone_calls, task_state, wait_time,
                   current_status, observations, last_event_text, unusedByClone>>

\* cluster = get_obj(content, [vim.ClusterComputeResource], cluster_name)
ResolveCluster ==
    /\ pc = "cluster"
    /\ \E v \in Views : cluster' = get_obj(v, params.cluster_name)
    /\ pc' = "resource_pool"
    /\ UNCHANGED <<results, datacenter, destfolder, datastore, resource_pool,
                   customization_template, clone_calls, task_state, wait_time,
                   current_status, observations, last_event_text, unusedByClone>>

\* if resource_pool: get_obj(...) else: resource_pool = cluster.resourcePool
ResolvePool ==
    /\ pc = "resource_pool"
    /\ IF Truthy(params.resource_pool)
       THEN /\ \E v \in Views : resource_pool' = get_obj(v, params.resource_pool)
            /\ pc' = "customization" /\ UNCHANGED results
       ELSE IF cluster = NoObj
            THEN Raise("AttributeError") /\ UNCHANGED resource_pool
            ELSE /\ resource_pool' = ChildOf(cluster, "resourcePool")
                 /\ pc' = "customization" /\ UNCHANGED results
    /\ UNCHANGED <<datacenter, destfolder, datastore, cluster,
                   customization_template, clone_calls, task_state, wait_time,
                   current_status, observations, last_event_text, unusedByClone>>

\* if not customization_template: (after the lookup)
SpecNotFoundNever(ct) == FALSE

SpecNotFound(ct) == ~Truthy(ct)

\* if customization_template: look the spec up, fail when there is none, take
\* nicSettingMap[0]; else: build a blank specification.
BuildSpec ==
    /\ pc = "customization"
    /\ IF Truthy(customization_template)
       THEN \/ \E found \in SpecItems \cup {NoSpec} :
                 /\ customization_template' = found
                 /\ IF SpecNotFound(found)
                    THEN Report(Payload("fail_json", {"msg"},
                             <<"Customization Template ", found, " not found">>,
                             <<>>, ""))
                    ELSE IF found # "spec_with_nic"
                    THEN Raise(IF found = NoSpec THEN "AttributeError"
                                                 ELSE "IndexError")
                    ELSE pc' = "clone" /\ UNCHANGED results
            \/ \* GetCustomizationSpec raises a fault
               Raise("vim.fault.NotFound") /\ UNCHANGED customization_template
       ELSE pc' = "clone" /\ UNCHANGED <<results, customization_template>>
    /\ UNCHANGED <<datacenter, destfolder, datastore, cluster, resource_pool,
                   clone_calls, task_state, wait_time, current_status,
                   observations, last_event_text, unusedByClone>>

\* task = template.Clone(folder=destfolder, name=vm_name, spec=clonespec): the
\* request goes to vCenter, which returns a running task or raises a fault.
\* The placement locals are not read after this line and are dropped.
Clone ==
    /\ pc = "clone"
    /\ clone_calls' = clone_calls + 1
    /\ \/ /\ task_state' = "running"
          /\ pc' = "wait_for_task" /\ UNCHANGED results
       \/ Raise("vim.fault") /\ UNCHANGED task_state
    /\ datacenter' = NoObj /\ destfolder' = NoObj /\ datastore' = NoObj
    /\ cluster' = NoObj /\ resource_pool' = NoObj
    /\ UNCHANGED <<customization_template, wait_time, current_status,
                   observations, last_event_text, unusedByClone>>

\* vCenter: the task becomes terminal exactly once.
TaskProgress ==
    /\ task_state = "running"
    /\ task_state' \in {"success", "error"}
    /\ UNCHANGED <<pc, results, datacenter, destfolder, datastore, cluster,
                   resource_pool, customization_template, clone_calls,
                   wait_time, current_status, observations, last_event_text,
                   unusedByClone>>

\* wait_for_task: while not task_done, with the task still running.
WaitForTaskSpin ==
    /\ pc = "wait_for_task"
    /\ task_state = "running"
    /\ UNCHANGED vars

\* wait_for_task returns (the result on success, None after error), then
\* "if customization_template: wait_time = 0"; otherwise clone_vm returns
\* and main ends without reporting.
WaitForTask ==
    /\ pc = "wait_for_task"
    /\ task_state \in {"success", "error"}
    /\ IF Truthy(customization_template)
       THEN pc' = "poll" /\ wait_time' = 0
       ELSE pc' = "done" /\ UNCHANGED wait_time
    /\ UNCHANGED <<results, datacenter, destfolder, datastore, cluster,
                   resource_pool, customization_template, clone_calls,
                   task_state, current_status, observations, last_event_text,
                   unusedByClone>>

LastText(evs) == IF evs = <<>> THEN "" ELSE evs[Len(evs)].fullFormattedMessage

\* get_events then check_events: every (last text, outcome) a batch can give.
Fetches == {[last |-> LastText(b), out |-> check_events(b)] : b \in Batches}

\* if wait_time >= MAX_WAIT_TIME
TimedOutEarly(w) == w >= MAX_WAIT_TIME

\* if wait_time > MAX_WAIT_TIME
TimedOut(w) == w > MAX_WAIT_TIME

\* One iteration of "while True": check_events(get_events(...)), sleep,
\* wait_time += 15, the timeout test.
Poll ==
    /\ pc = "poll"
    /\ \E f \in Fetches :
         /\ observations' = observations + 1
         /\ last_event_text' = f.last
         /\ IF f.out.call # "return"
            THEN /\ Report(Payload(f.out.call, {"changed", "msg"},
                               <<f.out.prefix, f.out.text>>, <<>>, ""))
                 /\ UNCHANGED <<current_status, wait_time>>
            ELSE /\ current_status' = f.out.text
                 /\ wait_time' = wait_time + POLL_INTERVAL
                 /\ IF TimedOut(wait_time')
                    THEN Report(Payload("fail_json", {"changed", "msg"},
                             <<"Exceeded Max Wait Time. Current state ",
                               current_status'>>, <<>>, ""))
                    ELSE UNCHANGED <<pc, results>>
    /\ UNCHANGED <<datacenter, destfolder, datastore, cluster, resource_pool,
                   customization_template, clone_calls, task_state,
                   unusedByClone>>

\* QueryEvents raises a fault inside get_events.
PollRaises ==
    /\ pc = "poll"
    /\ Raise("vim.fault")
    /\ UNCHANGED <<cloneVars, unusedByClone>>

Next ==
    \/ FindTemplate \/ ResolveDatacenter \/ ResolveFolder \/ ResolveDatastore
    \/ ResolveCluster \/ ResolvePool \/ BuildSpec \/ Clone \/ TaskProgress
    \/ WaitForTaskSpin \/ WaitForTask \/ Poll \/ PollRaises

Spec == InitClone /\ [][Next]_vars

\* ========================================================== deploy workflow
\* A command line is a sequence of fragments; SP is one blank, Q one
\* double quote. "command += s" is \o.
SP == " "
Q == "\""

PropKeys == {"k1", "k2", "k3"}
PropValues == {"v"}
\* The properties dict in iteration order: distinct keys.
PropertyLists ==
    {p \in SeqUpTo([key : PropKeys, value : PropValues], MaxProps) :
        \A i, j \in 1..Len(p) : i # j => p[i].key # p[j].key}

\* machine_output has no default: None stands with FALSE, both falsy.
DeployParams ==
    [vm_name : {"x"}, data_store : {"ds1"}, disk_mode : {"thin", "thick"},
     network_map : {[ovf_name |-> "A", target_name |-> "B"]},
     accept_all_eulas : BOOLEAN, enable_hidden_properties : BOOLEAN,
     no_ssl_verify : BOOLEAN, machine_output : BOOLEAN,
     power_on : BOOLEAN, wait_for_ip : BOOLEAN,
     properties : PropertyLists,
     ovf_path : {"/p.ova"}, vcenter_username : {"user"},
     vcenter_password : {"pass"}, vcenter_host : {"host"},
     vcenter_inventory_path : {"/inv"}]

\* Exit codes of the external tool; negative when a signal ended it.
ExitCodes == {-2, -1, 0, 1, 2}

\* command = 'ovftool --name="%s" --datastore="%s" --diskMode=%s --net:"%s"="%s" '
\* (vm_name is read into a one-element tuple and used as vm_name[0]: the name)
CommandHead(p) ==
    <<"ovftool", SP,
      "--name=", Q, p.vm_name, Q, SP,
      "--datastore=", Q, p.data_store, Q, SP,
      "--diskMode=", p.disk_mode, SP,
      "--net:", Q, p.network_map.ovf_name, Q, "=", Q,
                   p.network_map.target_name, Q, SP>>

\* if flag: command += token
AddFlag(cmd, flag, token) == IF flag THEN cmd \o <<token, SP>> ELSE cmd

\* The six "if" statements with power_on tested before machine_output.
CommandFlagsSwapped(cmd, p) ==
    LET c1 == AddFlag(cmd, p.accept_all_eulas, "--acceptAllEulas")
        c2 == AddFlag(c1, p.enable_hidden_properties, "--X:enableHiddenProperties")
        c3 == AddFlag(c2, p.no_ssl_verify, "--noSSLVerify")
        c4 == AddFlag(c3, p.power_on, "--powerOn")
        c5 == AddFlag(c4, p.machine_output, "--machineOutput")
    IN  AddFlag(c5, p.wait_for_ip, "--X:waitForIp")

\* The six "if" statements, in source order.
CommandFlags(cmd, p) ==
    LET c1 == AddFlag(cmd, p.accept_all_eulas, "--acceptAllEulas")
        c2 == AddFlag(c1, p.enable_hidden_properties, "--X:enableHiddenProperties")
        c3 == AddFlag(c2, p.no_ssl_verify, "--noSSLVerify")
        c4 == AddFlag(c3, p.machine_output, "--machineOutput")
        c5 == AddFlag(c4, p.power_on, "--powerOn")
    IN  AddFlag(c5, p.wait_for_ip, "--X:waitForIp")

\* for property in properties: command += '--prop:' + k + '=' + v + ' '
RECURSIVE CommandProps(_, _, _)
CommandProps(cmd, props, i) ==
    IF i > Len(props) THEN cmd
    ELSE CommandProps(cmd \o <<"--prop:", props[i].key, "=", props[i].value, SP>>,
                      props, i + 1)

\* command += ovf_path + ' vi://"' + user + '":"' + password + '"@' + host + path
CommandTail(p) ==
    <<p.ovf_path, SP, "vi://", Q, p.vcenter_username, Q, ":", Q,
      p.vcenter_password, Q, "@", p.vcenter_host, p.vcenter_inventory_path>>

BuildCommandOf(p) ==
    CommandProps(CommandFlags(CommandHead(p), p), p.properties, 1) \o CommandTail(p)

InitDeploy ==
    /\ pc = "build"
    /\ results = <<>>
    /\ params \in DeployParams
    /\ check_mode \in BOOLEAN
    /\ command = <<>> /\ run_calls = 0 /\ run_outcome = "not_run" /\ rc = 0
    /\ IdleClone /\ IdleGetObj /\ IdleEvents

unusedByDeploy == <<params, check_mode, cloneVars, getObjVars, eventVars>>

\* The command is assembled from the parameters.
BuildCommand ==
    /\ pc = "build"
    /\ command' = BuildCommandOf(params)
    /\ pc' = "check_mode"
    /\ UNCHANGED <<results, run_calls, run_outcome, rc, unusedByDeploy>>

\* if module.check_mode: (the test never taken)
InCheckModeNever(cm) == FALSE

\* if module.check_mode:
InCheckMode(cm) == cm

\* if module.check_mode: module.exit_json(changed=True, command=command)
CheckMode ==
    /\ pc = "check_mode"
    /\ IF InCheckMode(check_mode)
       THEN Report(Payload("exit_json", {"changed", "command"}, <<>>, command, ""))
       ELSE pc' = "run_command" /\ UNCHANGED results
    /\ UNCHANGED <<command, run_calls, run_outcome, rc, unusedByDeploy>>

\* (rc,out,err) = module.run_command(command); if rc < 0: fail_json(msg=err)
\* else: exit_json(changed=True, stdout=out)
RunCommand ==
    /\ pc = "run_command"
    /\ run_calls' = run_calls + 1
    /\ run_outcome' = "returned"
    /\ \E code \in ExitCodes :
         /\ rc' = code
         /\ IF code < 0
            THEN Report(Payload("fail_json", {"msg"}, <<"err">>, <<>>, ""))
            ELSE Report(Payload("exit_json", {"changed", "stdout"}, <<>>, <<>>, "out"))
    /\ UNCHANGED <<command, unusedByDeploy>>

\* except OSError as e: module.fail_json(msg=sys.stderr)
RunCommandOSError ==
    /\ pc = "run_command"
    /\ run_calls' = run_calls + 1
    /\ run_outcome' = "OSError"
    /\ Report(Payload("fail_json", {"msg"}, <<"sys.stderr">>, <<>>, ""))
    /\ UNCHANGED <<command, rc, unusedByDeploy>>

NextDeploy == BuildCommand \/ CheckMode \/ RunCommand \/ RunCommandOSError

SpecDeploy == InitDeploy /\ [][NextDeploy]_vars

\* ========================================================= get_obj on its own
InitGetObj ==
    /\ pc = "get_obj"
    /\ results = <<>> /\ params = <<>>
    /\ view \in Views
    /\ name \in NameArgs
    /\ obj = NoObj
    /\ IdleClone /\ IdleDeploy /\ IdleEvents

CallGetObj ==
    /\ pc = "get_obj"
    /\ obj' = get_obj(view, name)
    /\ pc' = "get_obj_returned"
    /\ UNCHANGED <<results, params, view, name, cloneVars, deployVars, eventVars>>

NextGetObj == CallGetObj

SpecGetObj == InitGetObj /\ [][NextGetObj]_vars

\* ==================================================== check_events on its own
InitCheckEvents ==
    /\ pc = "check_events"
    /\ results = <<>> /\ params = <<>>
    /\ events \in Batches
    /\ outcome = Outcome("pending", "", "")
    /\ IdleClone /\ IdleDeploy /\ IdleGetObj

\* check_events(events): it returns, or reports and ends the process.
CallCheckEvents ==
    /\ pc = "check_events"
    /\ outcome' = check_events(events)
    /\ IF outcome'.call = "return"
       THEN pc' = "check_events_returned" /\ UNCHANGED results
       ELSE Report(Payload(outcome'.call, {"changed", "msg"},
                <<outcome'.prefix, outcome'.text>>, <<>>, ""))
    /\ UNCHANGED <<params, events, cloneVars, deployVars, getObjVars>>

NextCheckEvents == CallCheckEvents

SpecCheckEvents == InitCheckEvents /\ [][NextCheckEvents]_vars

\* ==================================================================== claims
Min(S) == CHOOSE m \in S : \A n \in S : m <= n

\* C1: in the clone workflow, once the clone task has reached state "error",
\* Phase 2 (the event poll loop) is never entered and the invocation ends as
\* a hard failure: no observation is made and one failure payload is reported.
C1_TaskErrorIsHardFailure ==
    (task_state = "error" /\ pc \in {"poll", "done"}) =>
        /\ pc = "done"
        /\ observations = 0
        /\ Len(results) = 1
        /\ results[1].kind = "fail_json"

\* C2: every invocation of the clone workflow that has terminated has
\* reported exactly one result, a success payload with a changed-flag or a
\* failure payload with a message; a clone whose task succeeded with no
\* customization template supplied has reported a success.
C2_ExactlyOneResult ==
    pc = "done" =>
        /\ Len(results) = 1
        /\ \/ results[1].kind = "exit_json" /\ "changed" \in results[1].keys
           \/ results[1].kind = "fail_json" /\ "msg" \in results[1].keys
        /\ (task_state = "success" /\ ~Truthy(params.customization_template))
              => results[1].kind = "exit_json"

TimeoutReported ==
    /\ pc = "done"
    /\ Len(results) = 1
    /\ results[1].kind = "fail_json"
    /\ results[1].msg[1] = "Exceeded Max Wait Time. Current state "

\* C3: while the poll loop is still waiting it has made at most 240
\* observations and wait_time is 15 per observation; the "Exceeded Max Wait
\* Time" failure is reported exactly after the 241st observation, and its
\* message carries the text of the last event of the latest batch.
C3_TimeoutAfter241Observations ==
    /\ observations <= 241
    /\ pc = "poll" => observations <= 240 /\ wait_time = 15 * observations
    /\ TimeoutReported =>
          /\ observations = 241
          /\ results[1].msg = <<"Exceeded Max Wait Time. Current state ",
                                last_event_text>>

C3_Witness ==
    /\ TimeoutReported
    /\ observations = 241
    /\ last_event_text = "m2"

\* The outcome each terminal kind is mapped to.
ExpectedCall(kind) ==
    IF kind = "CustomizationSucceeded" THEN "exit_json" ELSE "fail_json"
ExpectedPrefix(kind) ==
    CASE kind = "CustomizationSucceeded" -> "Successfully Deployed and customized OS - "
      [] kind = "CustomizationFailed" -> "Customization Failed - "
      [] kind = "CustomizationLinuxIdentityFailed" -> "Customization Failed - Linux Identity Failed - "
      [] kind = "CustomizationNetworkSetupFailed" -> "Customization Failed - Network Setup Failed - "
      [] kind = "CustomizationSysprepFailed" -> "Customization Failed - Sysprep Failed - "
      [] kind = "CustomizationUnknownFailure" -> "Customization Failed - Unknown Failure - "

TerminalPositions ==
    {i \in 1..Len(events) : events[i].type \in TerminalEventKinds}

\* C4: check_events is decided by the first terminal event in delivery
\* order: Succeeded ends the invocation with success, a failure kind ends it
\* with failure under that kind's prefix, the message embedding that event's
\* text; a batch without terminal event reports nothing and returns the last
\* event's text (empty for an empty batch).
C4_FirstTerminalEventDecides ==
    pc # "check_events" =>
        IF TerminalPositions = {}
        THEN /\ pc = "check_events_returned"
             /\ results = <<>>
             /\ outcome.call = "return"
             /\ outcome.text = IF Len(events) = 0 THEN ""
                               ELSE events[Len(events)].fullFormattedMessage
        ELSE LET e == events[Min(TerminalPositions)]
             IN  /\ pc = "done"
                 /\ Len(results) = 1
                 /\ results[1].kind = ExpectedCall(e.type)
                 /\ results[1].msg = <<ExpectedPrefix(e.type), e.fullFormattedMessage>>

C4_Witness ==
    /\ pc = "done"
    /\ Len(events) = 3
    /\ TerminalPositions = {2}
    /\ events[2].type = "CustomizationSysprepFailed"
    /\ events[2].fullFormattedMessage = "m1"
    /\ events[3].fullFormattedMessage = "m2"

\* The named template was looked up and no spec came back.
LookupReturnedNone ==
    Truthy(params.customization_template) /\ customization_template = NoSpec

\* C5: when a customization template name is supplied and its lookup returns
\* no spec, the workflow has ended with the "Customization Template ... not
\* found" failure and template.Clone was never called.
C5_MissingSpecNeverClones ==
    LookupReturnedNone =>
        /\ pc = "done"
        /\ clone_calls = 0
        /\ Len(results) = 1
        /\ results[1].kind = "fail_json"
        /\ results[1].msg[1] = "Customization Template "
        /\ results[1].msg[3] = " not found"

C5_Witness == LookupReturnedNone /\ pc = "done" /\ Len(results) = 1

\* C6: template.Clone is never called while the resolved datacenter or the
\* resolved cluster is null, whatever vm_folder and resource_pool are.
C6_NullPlacementNeverClones ==
    [][clone_calls' # clone_calls => (datacenter # NoObj /\ cluster # NoObj)]_vars

\* C7: outside check-mode the deploy workflow reports success only when the
\* tool ran and exited with code 0; every nonzero exit code and a tool that
\* could not be started are reported as a failure with a message.
C7_NonzeroExitIsFailure ==
    (pc = "done" /\ ~check_mode) =>
        /\ Len(results) = 1
        /\ results[1].kind = "exit_json" <=> (run_outcome = "returned" /\ rc = 0)
        /\ results[1].kind = "fail_json" => "msg" \in results[1].keys

Candidates ==
    IF Truthy(name) THEN {i \in 1..Len(view) : view[i] = name}
    ELSE 1..Len(view)

\* C9: get_obj returns the first candidate in inventory order whose name
\* equals the supplied name, the first candidate when no name is supplied,
\* and null when there is none; a returned object has the supplied name.
C9_FirstMatchOrNull ==
    pc = "get_obj_returned" =>
        IF Candidates = {} THEN obj = NoObj
        ELSE /\ obj.pos = Min(Candidates)
             /\ obj.name = view[Min(Candidates)]
             /\ Truthy(name) => obj.name = name

C9_Witness ==
    /\ pc = "get_obj_returned"
    /\ name = "a"
    /\ view = <<"b", "a", "a">>
    /\ obj.pos = 2

\* The blank-separated tokens of a command line.
Tokens(cmd) ==
    LET seps == {i \in 1..Len(cmd) : cmd[i] = SP}
        n == Cardinality(seps)
        SepAt(k) == CHOOSE i \in seps : Cardinality({j \in seps : j < i}) = k - 1
        First(k) == IF k = 1 THEN 1 ELSE SepAt(k - 1) + 1
        Last(k) == IF k = n + 1 THEN Len(cmd) ELSE SepAt(k) - 1
    IN  [k \in 1..(n + 1) |-> SubSeq(cmd, First(k), Last(k))]

ExpectedHead(p) ==
    << <<"ovftool">>,
       <<"--name=", Q, p.vm_name, Q>>,
       <<"--datastore=", Q, p.data_store, Q>>,
       <<"--diskMode=", p.disk_mode>>,
       <<"--net:", Q, p.network_map.ovf_name, Q, "=", Q,
                      p.network_map.target_name, Q>> >>

ExpectedFlags(p) ==
    LET table == << <<p.accept_all_eulas, "--acceptAllEulas">>,
                    <<p.enable_hidden_properties, "--X:enableHiddenProperties">>,
                    <<p.no_ssl_verify, "--noSSLVerify">>,
                    <<p.machine_output, "--machineOutput">>,
                    <<p.power_on, "--powerOn">>,
                    <<p.wait_for_ip, "--X:waitForIp">> >>
        on == SelectSeq(table, LAMBDA r : r[1])
    IN  [i \in 1..Len(on) |-> <<on[i][2]>>]

ExpectedProps(p) ==
    [i \in 1..Len(p.properties) |->
        <<"--prop:", p.properties[i].key, "=", p.properties[i].value>>]

\* vi://"<user>":"<pass>"@<host><inventory_path>
QuotedLocator(p) ==
    <<"vi://", Q, p.vcenter_username, Q, ":", Q, p.vcenter_password, Q, "@",
      p.vcenter_host, p.vcenter_inventory_path>>

\* vi://<user>:<pass>@<host><inventory_path>
PlainLocator(p) ==
    <<"vi://", p.vcenter_username, ":", p.vcenter_password, "@",
      p.vcenter_host, p.vcenter_inventory_path>>

\* C10 as amended: the command holds, in this order, the name, datastore,
\* diskMode and net flags, one fixed token per true flag, one
\* --prop:key=value token per property, and ends with
\* <ovf_path> vi://"<user>":"<pass>"@<host><inventory_path>, the user and
\* the password each inside double quotes.
C10_CommandLayoutQuoted ==
    pc # "build" =>
        Tokens(command) =
            ExpectedHead(params) \o ExpectedFlags(params) \o ExpectedProps(params)
            \o << <<params.ovf_path>>, QuotedLocator(params) >>

\* C10 as stated: the same layout, ending with
\* <ovf_path> vi://<user>:<pass>@<host><inventory_path>.
C10_CommandLayoutAsStated ==
    pc # "build" =>
        Tokens(command) =
            ExpectedHead(params) \o ExpectedFlags(params) \o ExpectedProps(params)
            \o << <<params.ovf_path>>, PlainLocator(params) >>

C10_Witness ==
    /\ pc = "done"
    /\ params.machine_output /\ params.power_on /\ ~params.accept_all_eulas
    /\ Len(params.properties) = 2
    /\ Len(Tokens(command)) = 11

====
